---- MODULE Spec2Model ----
(***************************************************************************)
(* WhisperX sidecar (python-service/whisper_service): the JSON-RPC         *)
(* transport loop of main.py, the router of rpc_handler.py and the         *)
(* WhisperTranscriber session of transcriber.py.                           *)
(*                                                                         *)
(* The process is one thread that reads stdin line by line; the parent     *)
(* application writes lines to the pipe at any time.  External model       *)
(* toolkit calls (import, load_align_model, load_model, load_audio,        *)
(* transcribe, align) either return or raise.                              *)
(***************************************************************************)
EXTENDS Integers, Sequences, FiniteSets, TLC

(* ---------------------------------------------------------------------- *)
(* Bounds                                                                  *)
(* ---------------------------------------------------------------------- *)
\* number of lines the parent application writes to stdin
MaxLines == 3
\* number of ticks one ticker thread writes
MaxTicks == 1
\* number of initialize requests in the runs that follow the ticker threads
MaxInits == 2

(* ---------------------------------------------------------------------- *)
(* Values                                                                  *)
(* ---------------------------------------------------------------------- *)
\* Python None for a model handle
None == <<>>
\* JSON null / Python None in the id position; the parent numbers from 1
NullId == 0
\* a key that is absent from a params mapping
Missing == "<missing>"

\* dict.get(key, default)
Get(d, key, default) ==
    IF key \in DOMAIN d THEN d[key] ELSE default

\* the empty mapping {}
NoParams == << >>

\* the method table of the router
Methods == {"initialize", "transcribe", "cancel", "get_status", "shutdown"}

\* contents of the lines the parent application writes
GarbageLine ==
    [kind |-> "garbage", jsonrpc |-> Missing, method |-> Missing,
     params |-> NoParams]
Request(method, params) ==
    [kind |-> "object", jsonrpc |-> "2.0", method |-> method,
     params |-> params]
Payloads ==
    { GarbageLine,
      Request("initialize", NoParams),
      Request("initialize", [model |-> "small", language |-> "en",
                             hf_token |-> "hf_x"]),
      Request("transcribe", [audio_path |-> "x.wav"]),
      Request("cancel", NoParams),
      Request("get_status", NoParams),
      Request("shutdown", NoParams) }

\* a `method` value that is a JSON array (unhashable in Python)
Unhashable == "<list>"
\* a message without an "id" key
Notify(method, params) ==
    [kind |-> "object", jsonrpc |-> "2.0", method |-> method,
     params |-> params, noid |-> TRUE]
\* a line holding JSON that is not an object (a number, an array)
ScalarLine ==
    [kind |-> "scalar", jsonrpc |-> Missing, method |-> Missing,
     params |-> NoParams, noid |-> TRUE]
\* lines that exercise every branch of the router
RouterPayloads ==
    { Request("initialize", NoParams),
      Notify("initialize", NoParams),
      Notify("cancel", NoParams),
      Request("get_status", NoParams),
      [Request("shutdown", NoParams) EXCEPT !.jsonrpc = "1.0"],
      [Notify("cancel", NoParams) EXCEPT !.jsonrpc = Missing],
      Request("align_text", NoParams),
      Request(Unhashable, NoParams),
      ScalarLine }

\* sample counts load_audio can return (16 kHz)
AudioLens == {32000}
\* what the forced aligner can return for the coarse segments
\* (a word the aligner could not place carries no start and no end)
AlignResults ==
    { [segments |-> << [start |-> 0, end |-> 2, text |-> "hallo welt",
                        words |-> << [word |-> "hallo", start |-> 0,
                                      end |-> 1, score |-> 1] >>] >>],
      [segments |-> << [start |-> 1, end |-> 3, text |-> "hallo 2024",
                        words |-> << [word |-> "hallo", start |-> 1,
                                      end |-> 2, score |-> 1],
                                     [word |-> "2024"] >>] >>] }

(* ---------------------------------------------------------------------- *)
(* Messages on stdout                                                      *)
(* ---------------------------------------------------------------------- *)
Notification(method, params) ==
    [jsonrpc |-> "2.0", method |-> method, params |-> params]
\* percent is kept in half-percent units: the tickers step by 0.5
Progress(stage, percent) ==
    Notification("progress", [stage |-> stage, percent |-> 2 * percent])
\* a ticker's notification, its percent given in half-percent units
Tick(halves) ==
    Notification("progress", [stage |-> "initializing", percent |-> halves])
Response(result, id) ==
    [jsonrpc |-> "2.0", result |-> result, id |-> id]
ErrorResponse(code, message, id) ==
    [jsonrpc |-> "2.0", error |-> [code |-> code, message |-> message],
     id |-> id]

IsNotification(m) == "method" \in DOMAIN m
IsResult(m) == "result" \in DOMAIN m
IsError(m) == "error" \in DOMAIN m
IsProgress(m) == IsNotification(m) /\ m.method = "progress"

\* what a handler hands back to the router
Returned(value) == [raised |-> FALSE, value |-> value]
Raised(message) == [raised |-> TRUE, value |-> message]
NoRet == Returned(<< >>)

VARIABLES
    stdin,            \* lines written by the parent, not yet read
    sent,             \* number of lines the parent has written
    out,              \* messages written to stdout
    pc,               \* position of the process
    cur,              \* the request being handled (main's `request`)
    ret,              \* outcome of the running handler
    calls,            \* toolkit calls made for the current request
    imported,         \* whisperx_mlx is in sys.modules
    seen,             \* lines main has read from stdin, in order
    ticker,           \* the ticker threads started by initialize
    lock,             \* holder of the session's _lock: free, job or caller
    polled,           \* what get_status last returned to a second thread
    audio,            \* transcribe's local `audio` (sample count, 0 unset)
    result,           \* transcribe's local `result`
    align_model, align_metadata, whisper_model,
    device, language, model_name,
    is_initialized, is_processing, cancel_requested

session == <<align_model, align_metadata, whisper_model, device, language,
             model_name, is_initialized, is_processing, cancel_requested>>
locals == <<audio, result>>
vars == <<stdin, sent, seen, out, pc, cur, ret, calls, imported, ticker,
          lock, polled, locals, session>>

NoRequest ==
    [kind |-> "none", jsonrpc |-> Missing, method |-> Missing,
     params |-> NoParams, id |-> NullId,
     sentAt |-> [job |-> NullId, early |-> FALSE]]

\* positions at which a transcribe job is between its entry and its exit
JobStages ==
    {"tr_load", "tr_check1", "tr_transcribe", "tr_check2", "tr_align",
     "tr_check3", "tr_format", "tr_finally"}
\* positions from which the job still reaches a cancellation check
BeforeLastCheck ==
    {"tr_load", "tr_check1", "tr_transcribe", "tr_check2", "tr_align",
     "tr_check3"}

\* the second thread has not called get_status
NoStatus == [initialized |-> FALSE, processing |-> FALSE, device |-> "",
             language |-> ""]
\* no ticker thread
TickerOff == [pc |-> "off", count |-> 0, complete |-> TRUE, job |-> NullId]
\* a ticker thread right after Thread.start(), in the call for request `job`
TickerStarted(job) ==
    [pc |-> "sleeping", count |-> 0, complete |-> FALSE, job |-> job]

Init ==
    /\ stdin = <<>>
    /\ sent = 0
    /\ seen = <<>>
    /\ out = <<>>
    /\ pc = "start"
    /\ cur = NoRequest
    /\ ret = NoRet
    /\ calls = <<>>
    /\ imported = FALSE
    /\ ticker = [import |-> TickerOff, load |-> TickerOff]
    /\ lock = "free"
    /\ polled = NoStatus
    /\ audio = 0
    /\ result = None
    /\ align_model = None
    /\ align_metadata = None
    /\ whisper_model = None
    /\ device = "mps"
    /\ language = "de"
    /\ model_name = "large-v3"
    /\ is_initialized = FALSE
    /\ is_processing = FALSE
    /\ cancel_requested = FALSE

(* ---------------------------------------------------------------------- *)
(* The parent application                                                  *)
(* ---------------------------------------------------------------------- *)
\* The parent writes a line to the pipe.  Control requests remember which
\* transcribe job was running when they were written.
Send(p) ==
    /\ sent < MaxLines
    /\ LET tagged == p.method \in {"cancel", "get_status"} /\ pc \in JobStages
           line == [kind |-> p.kind, jsonrpc |-> p.jsonrpc,
                    method |-> p.method, params |-> p.params,
                    id |-> IF Get(p, "noid", FALSE) THEN NullId
                           ELSE sent + 1,
                    sentAt |-> [job |-> IF tagged THEN cur.id ELSE NullId,
                                early |-> tagged /\ pc \in BeforeLastCheck]]
       IN stdin' = Append(stdin, line)
    /\ sent' = sent + 1
    /\ UNCHANGED <<polled, seen, out, pc, cur, ret, calls, imported, ticker, lock, locals, session>>

\* Startup that enters the loop without writing `ready`
StartupSilent ==
    /\ pc = "start"
    /\ pc' = "idle"
    /\ UNCHANGED <<polled, stdin, sent, seen, out, cur, ret, calls, imported, ticker, lock,
                   locals, session>>

\* main up to the loop: the components are built, `ready` is written
Startup ==
    /\ pc = "start"
    /\ out' = Append(out, Notification("ready", [version |-> "1.0.0"]))
    /\ pc' = "idle"
    /\ UNCHANGED <<polled, stdin, sent, seen, cur, ret, calls, imported, ticker, lock,
                   locals, session>>

(* ---------------------------------------------------------------------- *)
(* Router: RPCHandler.handle                                               *)
(* ---------------------------------------------------------------------- *)
\* the envelope and method checks of handle
Routed(line) ==
    /\ line.kind = "object"
    /\ line.jsonrpc = "2.0"
    /\ line.method \in Methods

\* what handle returns for a handler outcome, as the sequence of messages
\* main then writes (main writes nothing for a None response)
Reply(r, id) ==
    IF r.raised THEN << ErrorResponse(-32603, r.value, id) >>
    ELSE IF id # NullId THEN << Response(r.value, id) >>
    ELSE << >>

\* NextIs for a loop that reads the next line while a handler is running
NextIsAnytime(method) ==
    /\ pc # "start"
    /\ stdin # << >>
    /\ Routed(Head(stdin))
    /\ Head(stdin).method = method

\* main is between two iterations and the next line carries `method`
NextIs(method) ==
    /\ pc = "idle"
    /\ stdin # << >>
    /\ Routed(Head(stdin))
    /\ Head(stdin).method = method

(* ---------------------------------------------------------------------- *)
(* Transport loop: main                                                    *)
(* ---------------------------------------------------------------------- *)
\* ReadMalformed answering with the id of the last request it handled
ReadMalformedLastId ==
    /\ pc = "idle"
    /\ stdin # << >>
    /\ Head(stdin).kind = "garbage"
    /\ stdin' = Tail(stdin)
    /\ seen' = Append(seen, Head(stdin))
    /\ out' = Append(out, ErrorResponse(-32700, "Parse error", cur.id))
    /\ UNCHANGED <<polled, sent, pc, cur, ret, calls, imported, ticker, lock, locals, session>>

\* json.loads raises JSONDecodeError: send_error(-32700, ...) with id None
ReadMalformed ==
    /\ pc = "idle"
    /\ stdin # << >>
    /\ Head(stdin).kind = "garbage"
    /\ stdin' = Tail(stdin)
    /\ seen' = Append(seen, Head(stdin))
    /\ out' = Append(out, ErrorResponse(-32700, "Parse error", NullId))
    /\ UNCHANGED <<polled, sent, pc, cur, ret, calls, imported, ticker, lock, locals, session>>

\* f"Method not found: {method}"
MethodNotFound(method) ==
    IF method = Missing THEN "Method not found: None"
    ELSE IF method = "align_text" THEN "Method not found: align_text"
    ELSE "Method not found: ?"

\* f"Internal error: {e}" for what handle raises outside its try block
InternalError(line) ==
    IF line.kind = "scalar"
    THEN "Internal error: 'int' object has no attribute 'get'"
    ELSE "Internal error: unhashable type: 'list'"

\* request.get("jsonrpc") != "2.0"
VersionMismatch(line) == line.jsonrpc # "2.0"

\* handle returns _error(-32600, ...) before it looks at the method
ReadInvalidRequest ==
    /\ pc = "idle"
    /\ stdin # << >>
    /\ Head(stdin).kind = "object"
    /\ VersionMismatch(Head(stdin))
    /\ cur' = Head(stdin)
    /\ stdin' = Tail(stdin)
    /\ seen' = Append(seen, Head(stdin))
    /\ out' = Append(out, ErrorResponse(-32600, "Invalid Request",
                                        Head(stdin).id))
    /\ UNCHANGED <<polled, sent, pc, ret, calls, imported, ticker, lock, locals, session>>

\* handle returns _error(-32601, ...): the method is not in the table
ReadUnknownMethod ==
    /\ pc = "idle"
    /\ stdin # << >>
    /\ Head(stdin).kind = "object"
    /\ ~VersionMismatch(Head(stdin))
    /\ Head(stdin).method \notin Methods \cup {Unhashable}
    /\ cur' = Head(stdin)
    /\ stdin' = Tail(stdin)
    /\ seen' = Append(seen, Head(stdin))
    /\ out' = Append(out, ErrorResponse(-32601,
                                        MethodNotFound(Head(stdin).method),
                                        Head(stdin).id))
    /\ UNCHANGED <<polled, sent, pc, ret, calls, imported, ticker, lock, locals, session>>

\* handle raises before its try block (request.get on a non-object, or
\* `method not in self.methods` on an unhashable method): main's
\* `except Exception` calls send_error(-32603, ...) without an id
ReadInternalError ==
    /\ pc = "idle"
    /\ stdin # << >>
    /\ \/ Head(stdin).kind = "scalar"
       \/ /\ Head(stdin).kind = "object"
          /\ ~VersionMismatch(Head(stdin))
          /\ Head(stdin).method = Unhashable
    /\ cur' = Head(stdin)
    /\ stdin' = Tail(stdin)
    /\ seen' = Append(seen, Head(stdin))
    /\ out' = Append(out, ErrorResponse(-32603, InternalError(Head(stdin)),
                                        NullId))
    /\ UNCHANGED <<polled, sent, pc, ret, calls, imported, ticker, lock, locals, session>>

\* handle dispatches to _initialize
ReadInitialize ==
    /\ NextIs("initialize")
    /\ cur' = Head(stdin)
    /\ stdin' = Tail(stdin)
    /\ seen' = Append(seen, Head(stdin))
    /\ pc' = "init_guard"
    /\ calls' = << >>
    /\ ret' = NoRet
    /\ UNCHANGED <<polled, sent, out, imported, ticker, lock, locals, session>>

\* handle dispatches to _transcribe
ReadTranscribe ==
    /\ NextIs("transcribe")
    /\ cur' = Head(stdin)
    /\ stdin' = Tail(stdin)
    /\ seen' = Append(seen, Head(stdin))
    /\ pc' = "tr_enter"
    /\ calls' = << >>
    /\ ret' = NoRet
    /\ UNCHANGED <<polled, sent, out, imported, ticker, lock, locals, session>>

\* handle wraps the handler's outcome; main writes the response
Respond ==
    /\ pc = "respond"
    /\ out' = out \o Reply(ret, cur.id)
    /\ pc' = "idle"
    /\ UNCHANGED <<polled, stdin, sent, seen, cur, ret, calls, imported, ticker, lock, locals, session>>

(* ---------------------------------------------------------------------- *)
(* cancel, get_status, shutdown                                            *)
(* ---------------------------------------------------------------------- *)
\* WhisperTranscriber.get_status
StatusSnapshot ==
    [initialized |-> is_initialized, processing |-> is_processing,
     device |-> device, language |-> language]

\* _cancel: transcriber.cancel() takes the lock, sets the flag and releases
\* the lock; then the response
HandleCancel ==
    /\ NextIs("cancel")
    /\ lock = "free"
    /\ cur' = Head(stdin)
    /\ stdin' = Tail(stdin)
    /\ seen' = Append(seen, Head(stdin))
    /\ cancel_requested' = TRUE
    /\ ret' = Returned([status |-> "cancelled"])
    /\ out' = out \o Reply(ret', cur'.id)
    /\ calls' = << >>
    /\ UNCHANGED <<polled, sent, pc, imported, ticker, lock, locals, align_model, align_metadata,
                   whisper_model, device, language, model_name,
                   is_initialized, is_processing>>

\* _get_status
HandleGetStatus ==
    /\ NextIs("get_status")
    /\ cur' = Head(stdin)
    /\ stdin' = Tail(stdin)
    /\ seen' = Append(seen, Head(stdin))
    /\ ret' = Returned(StatusSnapshot)
    /\ out' = out \o Reply(ret', cur'.id)
    /\ calls' = << >>
    /\ UNCHANGED <<polled, sent, pc, imported, ticker, lock, locals, session>>

\* HandleShutdown whose cleanup releases the transcription model only
HandleShutdownKeepsAligner ==
    /\ NextIs("shutdown")
    /\ cur' = Head(stdin)
    /\ stdin' = Tail(stdin)
    /\ seen' = Append(seen, Head(stdin))
    /\ whisper_model' = None
    /\ is_initialized' = FALSE
    /\ ret' = Returned([status |-> "shutdown"])
    /\ out' = out \o Reply(ret', cur'.id)
    /\ calls' = << >>
    /\ UNCHANGED <<polled, sent, pc, imported, ticker, lock, locals, align_model,
                   align_metadata, device, language, model_name,
                   is_processing, cancel_requested>>

\* _shutdown: transcriber.cleanup(), then the response
HandleShutdown ==
    /\ NextIs("shutdown")
    /\ cur' = Head(stdin)
    /\ stdin' = Tail(stdin)
    /\ seen' = Append(seen, Head(stdin))
    /\ whisper_model' = None
    /\ align_model' = None
    /\ align_metadata' = None
    /\ is_initialized' = FALSE
    /\ ret' = Returned([status |-> "shutdown"])
    /\ out' = out \o Reply(ret', cur'.id)
    /\ calls' = << >>
    /\ UNCHANGED <<polled, sent, pc, imported, ticker, lock, locals, device, language, model_name,
                   is_processing, cancel_requested>>

(* ---------------------------------------------------------------------- *)
(* initialize                                                              *)
(* ---------------------------------------------------------------------- *)
\* The actions below are the main thread of WhisperTranscriber.initialize,
\* one per stage.  Each of the two blocking calls runs beside a daemon
\* ticker thread (import_ticker, progress_ticker).  One thread of each kind
\* is followed: a thread of an earlier call that is still alive when a new
\* one is started is no longer followed.
\* the arguments _initialize extracts from params
ArgModel == Get(cur.params, "model", "large-v3")
ArgLanguage == Get(cur.params, "language", "de")
ArgDevice == Get(cur.params, "device", "mps")

\* AlreadyInitialized without the early return
AlreadyInitializedNever == FALSE

\* the guard at the top of WhisperTranscriber.initialize
AlreadyInitialized ==
    is_initialized /\ whisper_model # None

\* initialize up to the import statement: the guard, the session fields,
\* the first notifications and the start of the import ticker thread
InitializeBegin ==
    /\ pc = "init_guard"
    /\ IF AlreadyInitialized
       THEN /\ out' = Append(out, Progress("initializing", 100))
            /\ ret' = Returned([status |-> "initialized", model |-> ArgModel])
            /\ pc' = "respond"
            /\ UNCHANGED <<device, language, model_name, ticker>>
       ELSE /\ out' = out \o << Progress("initializing", 2),
                                Progress("initializing", 5) >>
            /\ device' = ArgDevice
            /\ language' = ArgLanguage
            /\ model_name' = ArgModel
            /\ ticker' = [ticker EXCEPT !.import = TickerStarted(cur.id)]
            /\ pc' = "init_import"
            /\ UNCHANGED ret
    /\ UNCHANGED <<polled, stdin, sent, seen, lock, cur, calls, imported, locals,
                   align_model, align_metadata, whisper_model,
                   is_initialized, is_processing, cancel_requested>>

\* stage 1: import whisperx_mlx returns or raises; the finally block sets
\* import_complete and join(timeout=1) returns, with the ticker thread
\* ended or not
InitializeImport ==
    /\ pc = "init_import"
    /\ calls' = Append(calls, <<"import", "whisperx_mlx">>)
    /\ ticker' = [ticker EXCEPT !.import.complete = TRUE]
    /\ \/ /\ imported' = TRUE
          /\ out' = out \o << Progress("initializing", 15),
                              Progress("initializing", 17) >>
          /\ pc' = "init_align"
          /\ UNCHANGED ret
       \/ /\ ~imported
          /\ ret' = Raised("No module named whisperx_mlx")
          /\ pc' = "respond"
          /\ UNCHANGED <<imported, out>>
    /\ UNCHANGED <<polled, stdin, sent, seen, lock, cur, locals, session>>

\* stage 2: whisperx_mlx.load_align_model; on success the notifications up
\* to the load_model call and the start of the progress ticker thread
InitializeAlign ==
    /\ pc = "init_align"
    /\ calls' = Append(calls, <<"load_align_model", ArgLanguage>>)
    /\ \/ /\ align_model' = <<"align_model", ArgLanguage>>
          /\ align_metadata' = <<"align_metadata", ArgLanguage>>
          /\ out' = out \o << Progress("initializing", 35),
                              Progress("initializing", 37),
                              Progress("initializing", 40),
                              Progress("initializing", 40) >>
          /\ ticker' = [ticker EXCEPT !.load = TickerStarted(cur.id)]
          /\ pc' = "init_model"
          /\ UNCHANGED ret
       \/ /\ out' = Append(out, Progress("initializing", 17))
          /\ ret' = Raised("load_align_model failed")
          /\ pc' = "respond"
          /\ UNCHANGED <<align_model, align_metadata, ticker>>
    /\ UNCHANGED <<polled, stdin, sent, seen, lock, cur, imported, locals, whisper_model,
                   device, language, model_name, is_initialized,
                   is_processing, cancel_requested>>

\* InitializeModel that marks the session initialized whether or not
\* load_model succeeds
InitializeModelFlagFirst ==
    /\ pc = "init_model"
    /\ calls' = Append(calls, <<"load_model", ArgModel>>)
    /\ ticker' = [ticker EXCEPT !.load.complete = TRUE]
    /\ is_initialized' = TRUE
    /\ \/ /\ whisper_model' = <<"whisper_model", ArgModel, ArgDevice,
                                ArgLanguage>>
          /\ out' = out \o << Progress("initializing", 92),
                              Progress("initializing", 95),
                              Progress("initializing", 100) >>
          /\ ret' = Returned([status |-> "initialized", model |-> ArgModel])
       \/ /\ out' = Append(out, Progress("initializing", 40))
          /\ ret' = Raised("load_model failed")
          /\ UNCHANGED whisper_model
    /\ pc' = "respond"
    /\ UNCHANGED <<polled, stdin, sent, seen, lock, cur, imported, locals,
                   align_model, align_metadata, device, language,
                   model_name, is_processing, cancel_requested>>

\* stages 3 and 4: load_model returns or raises; load_complete is set and
\* join(timeout=1) returns; warm-up, is_initialized = True
InitializeModel ==
    /\ pc = "init_model"
    /\ calls' = Append(calls, <<"load_model", ArgModel>>)
    /\ ticker' = [ticker EXCEPT !.load.complete = TRUE]
    /\ \/ /\ whisper_model' = <<"whisper_model", ArgModel, ArgDevice,
                                ArgLanguage>>
          /\ out' = out \o << Progress("initializing", 92),
                              Progress("initializing", 95),
                              Progress("initializing", 100) >>
          /\ is_initialized' = TRUE
          /\ ret' = Returned([status |-> "initialized", model |-> ArgModel])
       \/ /\ out' = Append(out, Progress("initializing", 40))
          /\ ret' = Raised("load_model failed")
          /\ UNCHANGED <<whisper_model, is_initialized>>
    /\ pc' = "respond"
    /\ UNCHANGED <<polled, stdin, sent, seen, lock, cur, imported, locals, align_model,
                   align_metadata, device, language, model_name,
                   is_processing, cancel_requested>>

(* ---------------------------------------------------------------------- *)
(* The ticker threads of initialize                                        *)
(* ---------------------------------------------------------------------- *)
Tickers == {"import", "load"}

\* import_ticker: current_percent after `count` ticks, in half-percents
ImportTickHalves(count) ==
    IF 10 + count < 28 THEN 10 + count ELSE 28

\* progress_ticker: current_percent after `count` ticks, in half-percents
RECURSIVE LoadCurrentHalves(_)
LoadCurrentHalves(count) ==
    IF count = 0 THEN 90
    ELSE LET before == LoadCurrentHalves(count - 1)
         IN IF before < 120 THEN before + 3
            ELSE IF before < 150 THEN before + 2
            ELSE before + 1
\* the percent progress_ticker reports: min(current_percent, 88)
LoadTickHalves(count) ==
    IF LoadCurrentHalves(count) < 176 THEN LoadCurrentHalves(count) ELSE 176

TickHalves(t, count) ==
    IF t = "import" THEN ImportTickHalves(count) ELSE LoadTickHalves(count)

\* the loop condition `current_percent < 14` / `current_percent < 88`
BelowCap(t, count) ==
    IF t = "import" THEN ImportTickHalves(count) < 28
    ELSE LoadCurrentHalves(count) < 176

\* the thread wakes from sleep(2): it ends when the event is set or the cap
\* is reached; otherwise it computes the next percent and passes the last
\* `not ...complete.is_set()` test before the callback
TickerWake(t) ==
    /\ ticker[t].pc = "sleeping"
    /\ IF ticker[t].complete \/ ~BelowCap(t, ticker[t].count)
       THEN ticker' = [ticker EXCEPT ![t] = TickerOff]
       ELSE /\ ticker[t].count < MaxTicks
            /\ ticker' = [ticker EXCEPT ![t].pc = "armed",
                                        ![t].count = @ + 1]
    /\ UNCHANGED <<polled, stdin, sent, seen, lock, out, pc, cur, ret, calls, imported,
                   locals, session>>

\* the thread calls progress_callback: the tick is written to stdout
TickerWrite(t) ==
    /\ ticker[t].pc = "armed"
    /\ out' = Append(out, Tick(TickHalves(t, ticker[t].count)))
    /\ ticker' = [ticker EXCEPT ![t].pc = "sleeping"]
    /\ UNCHANGED <<polled, stdin, sent, seen, lock, pc, cur, ret, calls, imported, locals,
                   session>>

(* ---------------------------------------------------------------------- *)
(* transcribe                                                              *)
(* ---------------------------------------------------------------------- *)
\* options["language"] as _transcribe builds it
Options == [language |-> Get(cur.params, "language", "de")]
\* the language transcribe passes on: options.get("language", self.language)
OptLanguage == Get(Options, "language", language)

\* CheckCancelled that never sees the flag
CheckCancelledBlind == FALSE

\* WhisperTranscriber._check_cancelled
CheckCancelled == cancel_requested

\* one word / one segment of _format_result
FormatWord(w) ==
    [word |-> Get(w, "word", ""), start |-> Get(w, "start", 0),
     end |-> Get(w, "end", 0), score |-> Get(w, "score", 0)]
FormatSegment(seg) ==
    [start |-> Get(seg, "start", 0), end |-> Get(seg, "end", 0),
     text |-> Get(seg, "text", ""),
     words |-> [i \in DOMAIN Get(seg, "words", << >>) |->
                    FormatWord(Get(seg, "words", << >>)[i])]]
\* WhisperTranscriber._format_result
FormatResult(res, duration) ==
    [segments |-> [i \in DOMAIN res.segments |->
                       FormatSegment(res.segments[i])],
     language |-> Get(res, "language", language),
     duration |-> duration]

\* positions at which the job thread enters a `with self._lock` block
LockPoints == {"tr_enter", "tr_check1", "tr_check2", "tr_check3", "tr_finally"}

\* the job thread acquires the lock; at the entry this follows the import
\* statement, which has succeeded
TranscribeAcquire ==
    /\ pc \in LockPoints
    /\ lock = "free"
    /\ lock' = "job"
    /\ imported' = (imported \/ pc = "tr_enter")
    /\ UNCHANGED <<polled, stdin, sent, seen, out, pc, cur, ret, calls, ticker,
                   locals, session>>

\* TranscribeEnter that does not clear cancel_requested
TranscribeEnterKeepsFlag ==
    /\ pc = "tr_enter"
    /\ \/ /\ lock = "job"
          /\ is_processing' = TRUE
          /\ lock' = "free"
          /\ pc' = "tr_load"
          /\ UNCHANGED <<ret, cancel_requested>>
       \/ /\ lock # "job"
          /\ ~imported
          /\ ret' = Raised("No module named whisperx_mlx")
          /\ pc' = "respond"
          /\ UNCHANGED <<lock, is_processing, cancel_requested>>
    /\ UNCHANGED <<polled, stdin, sent, seen, out, cur, calls, imported, ticker,
                   locals, align_model, align_metadata, whisper_model,
                   device, language, model_name, is_initialized>>

\* the import statement raises, or the flags are set under the lock and the
\* lock is released
TranscribeEnter ==
    /\ pc = "tr_enter"
    /\ \/ /\ lock = "job"
          /\ is_processing' = TRUE
          /\ cancel_requested' = FALSE
          /\ lock' = "free"
          /\ pc' = "tr_load"
          /\ UNCHANGED ret
       \/ /\ lock # "job"
          /\ ~imported
          /\ ret' = Raised("No module named whisperx_mlx")
          /\ pc' = "respond"
          /\ UNCHANGED <<lock, is_processing, cancel_requested>>
    /\ UNCHANGED <<polled, stdin, sent, seen, out, cur, calls, imported, ticker,
                   locals, align_model, align_metadata, whisper_model,
                   device, language, model_name, is_initialized>>

\* stage 1: load_audio
TranscribeLoadAudio ==
    /\ pc = "tr_load"
    /\ out' = Append(out, Progress("loading", 0))
    /\ calls' = Append(calls, <<"load_audio", cur.params.audio_path>>)
    /\ \/ /\ audio' \in AudioLens
          /\ pc' = "tr_check1"
          /\ UNCHANGED ret
       \/ /\ ret' = Raised("load_audio failed")
          /\ pc' = "tr_finally"
          /\ UNCHANGED audio
    /\ UNCHANGED <<polled, stdin, sent, seen, cur, imported, ticker, lock, result, session>>

\* TranscribeCheck that keeps the lock when the job goes on
TranscribeCheckHoldsLock(at, next) ==
    /\ pc = at
    /\ lock = "job"
    /\ IF CheckCancelled
       THEN /\ ret' = Returned([cancelled |-> TRUE])
            /\ pc' = "tr_finally"
            /\ lock' = "free"
       ELSE /\ pc' = next
            /\ UNCHANGED <<ret, lock>>
    /\ UNCHANGED <<polled, stdin, sent, seen, out, cur, calls, imported,
                   ticker, locals, session>>

\* a cancellation check: the flag is read under the lock; return
\* {"cancelled": True} or go on to `next`
TranscribeCheck(at, next) ==
    /\ pc = at
    /\ lock = "job"
    /\ lock' = "free"
    /\ IF CheckCancelled
       THEN /\ ret' = Returned([cancelled |-> TRUE])
            /\ pc' = "tr_finally"
       ELSE /\ pc' = next
            /\ UNCHANGED ret
    /\ UNCHANGED <<polled, stdin, sent, seen, out, cur, calls, imported, ticker,
                   locals, session>>

\* stage 2: self.whisper_model.transcribe
TranscribeModel ==
    /\ pc = "tr_transcribe"
    /\ out' = Append(out, Progress("transcribing", 10))
    /\ IF whisper_model = None
       THEN /\ ret' = Raised("'NoneType' object has no attribute 'transcribe'")
            /\ pc' = "tr_finally"
            /\ UNCHANGED <<calls, result>>
       ELSE /\ calls' = Append(calls, <<"transcribe", OptLanguage>>)
            /\ \/ /\ result' = <<"coarse", OptLanguage>>
                  /\ pc' = "tr_check2"
                  /\ UNCHANGED ret
               \/ /\ ret' = Raised("transcribe failed")
                  /\ pc' = "tr_finally"
                  /\ UNCHANGED result
    /\ UNCHANGED <<polled, stdin, sent, seen, cur, imported, ticker, lock, audio, session>>

\* stage 3: whisperx_mlx.align
TranscribeAlign ==
    /\ pc = "tr_align"
    /\ out' = Append(out, Progress("aligning", 50))
    /\ calls' = Append(calls, <<"align", align_model>>)
    /\ \/ /\ result' \in AlignResults
          /\ pc' = "tr_check3"
          /\ UNCHANGED ret
       \/ /\ ret' = Raised("align failed")
          /\ pc' = "tr_finally"
          /\ UNCHANGED result
    /\ UNCHANGED <<polled, stdin, sent, seen, cur, imported, ticker, lock, audio, session>>

\* the final notification and _format_result
TranscribeFormat ==
    /\ pc = "tr_format"
    /\ out' = Append(out, Progress("complete", 100))
    /\ ret' = Returned(FormatResult(result, audio \div 16000))
    /\ pc' = "tr_finally"
    /\ UNCHANGED <<polled, stdin, sent, seen, cur, calls, imported, ticker, lock, locals, session>>

\* TranscribeFinally with the reset at the end of the try body only
TranscribeFinallyOnReturn ==
    /\ pc = "tr_finally"
    /\ lock = "job"
    /\ lock' = "free"
    /\ is_processing' = ret.raised
    /\ audio' = 0
    /\ result' = None
    /\ pc' = "respond"
    /\ UNCHANGED <<polled, stdin, sent, seen, out, cur, ret, calls, imported, ticker,
                   align_model, align_metadata, whisper_model, device,
                   language, model_name, is_initialized, cancel_requested>>

\* the finally block: is_processing = False under the lock
TranscribeFinally ==
    /\ pc = "tr_finally"
    /\ lock = "job"
    /\ lock' = "free"
    /\ is_processing' = FALSE
    /\ audio' = 0
    /\ result' = None
    /\ pc' = "respond"
    /\ UNCHANGED <<polled, stdin, sent, seen, out, cur, ret, calls, imported, ticker,
                   align_model, align_metadata, whisper_model, device,
                   language, model_name, is_initialized, cancel_requested>>

(* ---------------------------------------------------------------------- *)
(* Specifications                                                          *)
(* ---------------------------------------------------------------------- *)
\* the sidecar process as main runs it
\* The main loop.  The ticker threads are not scheduled here: these are the
\* runs in which every toolkit call returns within a ticker's first sleep.
\* NextTicker follows the threads.
Next ==
    \/ \E p \in Payloads : Send(p)
    \/ Startup
    \/ ReadMalformed
    \/ ReadInitialize
    \/ ReadTranscribe
    \/ Respond
    \/ HandleCancel
    \/ HandleGetStatus
    \/ HandleShutdown
    \/ InitializeBegin
    \/ InitializeImport
    \/ InitializeAlign
    \/ InitializeModel
    \/ TranscribeAcquire
    \/ TranscribeEnter
    \/ TranscribeLoadAudio
    \/ TranscribeCheck("tr_check1", "tr_transcribe")
    \/ TranscribeModel
    \/ TranscribeCheck("tr_check2", "tr_align")
    \/ TranscribeAlign
    \/ TranscribeCheck("tr_check3", "tr_format")
    \/ TranscribeFormat
    \/ TranscribeFinally

Spec == Init /\ [][Next]_vars

\* WhisperTranscriber.cancel() called from a second thread while the job
\* thread is inside transcribe (the use the session's lock provides for)
CancelCall ==
    /\ pc \in JobStages \cup {"tr_enter"}
    /\ lock = "free"
    /\ lock' = "caller"
    /\ UNCHANGED <<polled, stdin, sent, seen, out, pc, cur, ret, calls, imported,
                   ticker, locals, session>>

\* the second thread writes the flag and releases the lock
CancelSet ==
    /\ lock = "caller"
    /\ cancel_requested' = TRUE
    /\ lock' = "free"
    /\ UNCHANGED <<polled, stdin, sent, seen, out, pc, cur, ret, calls, imported,
                   ticker, locals, align_model, align_metadata,
                   whisper_model, device, language, model_name,
                   is_initialized, is_processing>>

\* WhisperTranscriber.get_status() called from a second thread while the
\* job thread is inside transcribe: the fields are read without the lock
StatusCall ==
    /\ pc \in JobStages
    /\ polled' = StatusSnapshot
    /\ UNCHANGED <<stdin, sent, seen, out, pc, cur, ret, calls, imported,
                   ticker, lock, locals, session>>

NextThreaded ==
    \/ Next
    \/ CancelCall
    \/ CancelSet
    \/ StatusCall

SpecThreaded == Init /\ [][NextThreaded]_vars

\* the transport loop and the router under lines of every envelope shape
NextRouter ==
    \/ \E p \in RouterPayloads : Send(p)
    \/ Startup
    \/ ReadInvalidRequest
    \/ ReadUnknownMethod
    \/ ReadInternalError
    \/ ReadInitialize
    \/ Respond
    \/ HandleCancel
    \/ HandleGetStatus
    \/ InitializeBegin
    \/ InitializeImport
    \/ InitializeAlign
    \/ InitializeModel

SpecRouter == Init /\ [][NextRouter]_vars

\* initialize with its two ticker threads
TickerPayloads == { Request("initialize", NoParams) }

\* the parent writes an initialize request
SendInit(p) ==
    /\ sent < MaxInits
    /\ Send(p)

NextTicker ==
    \/ \E p \in TickerPayloads : SendInit(p)
    \/ Startup
    \/ ReadInitialize
    \/ Respond
    \/ InitializeBegin
    \/ InitializeImport
    \/ InitializeAlign
    \/ InitializeModel
    \/ \E t \in Tickers : TickerWake(t)
    \/ \E t \in Tickers : TickerWrite(t)

SpecTicker == Init /\ [][NextTicker]_vars

(* ---------------------------------------------------------------------- *)
(* Observations on the output stream                                       *)
(* ---------------------------------------------------------------------- *)
\* positions of the responses (result or error) written for request `id`
Answers(id) ==
    {i \in DOMAIN out : ~IsNotification(out[i]) /\ out[i].id = id}
IsTranscript(v) == DOMAIN v = {"segments", "language", "duration"}
IsCancelledMarker(v) == v = [cancelled |-> TRUE]
IsStatus(v) == "processing" \in DOMAIN v
TranscriptAt(i) == IsResult(out[i]) /\ IsTranscript(out[i].result)
Checks == {"tr_check1", "tr_check2", "tr_check3"}
\* the handle load_model returns for the arguments of the current request
RequestedModel == <<"whisper_model", ArgModel, ArgDevice, ArgLanguage>>

(* ---------------------------------------------------------------------- *)
(* C1                                                                      *)
(* ---------------------------------------------------------------------- *)
NotInitializedMessage == "WhisperTranscriber not initialized"

\* C1: a transcribe handled while the session is not initialized is answered
\* with error -32603 whose message says the session is not initialized, and
\* no pipeline stage (toolkit call) has run for it.
C1_UninitializedTranscribeRejected ==
    (pc = "idle" /\ cur.method = "transcribe" /\ ~is_initialized) =>
        /\ calls = << >>
        /\ \A i \in Answers(cur.id) :
              /\ IsError(out[i])
              /\ out[i].error.code = -32603
              /\ out[i].error.message = NotInitializedMessage

(* ---------------------------------------------------------------------- *)
(* C2                                                                      *)
(* ---------------------------------------------------------------------- *)
\* C2: when a cancel was written to stdin while transcribe job j was running
\* and before j's last cancellation check, j's result is {cancelled: true}.
C2_CancelReachesRunningJob ==
    \A i \in DOMAIN out :
        (/\ IsResult(out[i])
         /\ \E k \in DOMAIN stdin :
               /\ stdin[k].method = "cancel"
               /\ stdin[k].sentAt.job = out[i].id
               /\ stdin[k].sentAt.early)
        => IsCancelledMarker(out[i].result)

(* ---------------------------------------------------------------------- *)
(* C3                                                                      *)
(* ---------------------------------------------------------------------- *)
\* C3: a get_status written to stdin while transcribe job j is running is
\* answered before j's response is written, and reports processing = true.
C3_StatusAnsweredDuringJob ==
    /\ \A k \in DOMAIN stdin :
          (stdin[k].method = "get_status" /\ stdin[k].sentAt.job # NullId)
          => Answers(stdin[k].sentAt.job) = {}
    /\ (cur.method = "get_status" /\ cur.sentAt.job # NullId) =>
          \A i \in Answers(cur.id) :
              IsResult(out[i]) /\ out[i].result.processing

(* ---------------------------------------------------------------------- *)
(* C4                                                                      *)
(* ---------------------------------------------------------------------- *)
\* C4: a cancellation check that reads cancel_requested = true makes the job
\* return exactly {cancelled: true}: from the check on, no further stage
\* runs (no toolkit call, no progress notification), the return value is
\* kept through the finally block, and the response carries nothing else.
C4_CancelledExactly ==
    [][ /\ (pc \in Checks /\ cancel_requested /\ pc' # pc) =>
            /\ pc' = "tr_finally"
            /\ ~ret'.raised /\ IsCancelledMarker(ret'.value)
            /\ calls' = calls
            /\ out' = out
        /\ (/\ pc = "tr_finally" /\ pc' # pc
            /\ ~ret.raised /\ IsCancelledMarker(ret.value)) =>
            /\ pc' = "respond"
            /\ ret' = ret
            /\ calls' = calls
            /\ out' = out
        /\ (/\ pc = "respond" /\ pc' # pc /\ cur.method = "transcribe"
            /\ ~ret.raised /\ IsCancelledMarker(ret.value)) =>
            out' = Append(out, Response([cancelled |-> TRUE], cur.id))
      ]_vars

\* a job cancelled at its second check has been answered
C4_Witness ==
    /\ pc = "idle"
    /\ cur.method = "transcribe"
    /\ Len(calls) = 2
    /\ \E i \in Answers(cur.id) :
          IsResult(out[i]) /\ IsCancelledMarker(out[i].result)

(* ---------------------------------------------------------------------- *)
(* C5                                                                      *)
(* ---------------------------------------------------------------------- *)
\* C5: cancels handled while no job runs leave the next job untouched: in
\* the sidecar process every job runs with cancel_requested cleared, and a
\* job whose stages all succeed returns a TranscriptResult.
C5_IdleCancelHarmless ==
    /\ pc \in JobStages => ~cancel_requested
    /\ (pc = "respond" /\ cur.method = "transcribe" /\ ~ret.raised)
          => IsTranscript(ret.value)

\* a cancel was answered, and a later transcribe returned a transcript
C5_Witness ==
    \E i, j \in DOMAIN out :
        /\ i < j
        /\ IsResult(out[i]) /\ out[i].result = [status |-> "cancelled"]
        /\ TranscriptAt(j)

(* ---------------------------------------------------------------------- *)
(* C6                                                                      *)
(* ---------------------------------------------------------------------- *)
\* C6: initialize in state Ready with the configuration that is loaded runs
\* no load stage: the call writes exactly one progress notification, with
\* percent 100, makes no toolkit call, keeps the handles and the session
\* fields, and returns {status: "initialized", model}.
C6_SameConfigShortCircuit ==
    [][ (/\ pc = "init_guard" /\ pc' # pc
         /\ is_initialized
         /\ whisper_model = RequestedModel) =>
            /\ out' = Append(out, Progress("initializing", 100))
            /\ calls' = calls
            /\ session' = session
            /\ pc' = "respond"
            /\ ~ret'.raised
            /\ ret'.value = [status |-> "initialized", model |-> ArgModel]
      ]_vars

\* the second initialize with the loaded configuration is about to answer
C6_Witness ==
    /\ pc = "respond"
    /\ cur.method = "initialize"
    /\ calls = << >>
    /\ is_initialized
    /\ whisper_model = RequestedModel

(* ---------------------------------------------------------------------- *)
(* C7                                                                      *)
(* ---------------------------------------------------------------------- *)
\* C7: after an initialize that returns {status: "initialized", model: M},
\* the transcription model, language and device of the session are the
\* ones requested by that call (a different configuration is loaded anew).
C7_RequestedConfigLoaded ==
    (pc = "respond" /\ cur.method = "initialize" /\ ~ret.raised) =>
        /\ whisper_model = RequestedModel
        /\ model_name = ArgModel
        /\ language = ArgLanguage
        /\ device = ArgDevice

(* ---------------------------------------------------------------------- *)
(* C8                                                                      *)
(* ---------------------------------------------------------------------- *)
\* C8: when a stage of initialize fails, the session is Uninitialized and
\* holds no alignment model, alignment metadata or transcription model.
C8_FailedInitializeClean ==
    (pc = "respond" /\ cur.method = "initialize" /\ ret.raised) =>
        /\ ~is_initialized
        /\ align_model = None
        /\ align_metadata = None
        /\ whisper_model = None

(* ---------------------------------------------------------------------- *)
(* C9                                                                      *)
(* ---------------------------------------------------------------------- *)
\* C9: is_processing is true only between a job's entry and its exit; it is
\* false when the job's response is written, whatever the exit path, and
\* every get_status answered by the loop reports processing = false.
C9_ProcessingOnlyInJob ==
    /\ is_processing => pc \in JobStages
    /\ pc \in {"respond", "idle"} => ~is_processing
    /\ \A i \in DOMAIN out :
          (IsResult(out[i]) /\ IsStatus(out[i].result))
          => ~out[i].result.processing

\* a job whose transcription stage raised, then a get_status was answered
C9_Witness ==
    \E i, j \in DOMAIN out :
        /\ i < j
        /\ IsError(out[i]) /\ out[i].error.message = "transcribe failed"
        /\ IsResult(out[j]) /\ IsStatus(out[j].result)

(* ---------------------------------------------------------------------- *)
(* C10                                                                     *)
(* ---------------------------------------------------------------------- *)
\* C10: reading a malformed line writes exactly one message, the error
\* -32700 with id null, and changes nothing else: the loop is again between
\* two iterations with the session, the imported modules and its locals as
\* they were, so the next line is handled as without the malformed line.
C10_MalformedLineIsolated ==
    [][ (/\ pc = "idle" /\ stdin # << >>
         /\ Head(stdin).kind = "garbage"
         /\ Len(stdin') < Len(stdin)) =>
            /\ Len(out') = Len(out) + 1
            /\ SubSeq(out', 1, Len(out)) = out
            /\ IsError(out'[Len(out')])
            /\ out'[Len(out')].error.code = -32700
            /\ out'[Len(out')].id = NullId
            /\ stdin' = Tail(stdin)
            /\ seen' = Append(seen, Head(stdin))
            /\ <<pc, cur, ret, calls, imported, locals, session>>' =
               <<pc, cur, ret, calls, imported, locals, session>>
      ]_vars

\* a parse error was written and a later request got its result
C10_Witness ==
    \E i, j \in DOMAIN out :
        /\ i < j
        /\ IsError(out[i]) /\ out[i].error.code = -32700
        /\ IsResult(out[j])

(* ---------------------------------------------------------------------- *)
(* C11                                                                     *)
(* ---------------------------------------------------------------------- *)
\* main reads the next line in this step
ReadsLine == seen' # seen
\* the messages this step writes
Written == SubSeq(out', Len(out) + 1, Len(out'))
IsResponse(m) == IsResult(m) \/ IsError(m)

\* C11: a message (a JSON object) the router does not route reaches no
\* handler and leaves the session unchanged; it is answered with exactly one
\* error keyed to its id (or null): -32600 when the version tag is missing
\* or not "2.0", whatever the method, and -32601 when the version tag is
\* valid and the method is outside the method table.
C11_RouterRejections ==
    [][ (/\ ReadsLine
         /\ Head(stdin).kind = "object"
         /\ ~Routed(Head(stdin))) =>
            /\ session' = session
            /\ <<pc, ret, calls, imported, locals>>' =
               <<pc, ret, calls, imported, locals>>
            /\ Len(Written) = 1
            /\ IsError(Written[1])
            /\ Written[1].error.code =
                   IF Head(stdin).jsonrpc # "2.0" THEN -32600 ELSE -32601
            /\ Written[1].id = Head(stdin).id
      ]_vars

(* ---------------------------------------------------------------------- *)
(* C12                                                                     *)
(* ---------------------------------------------------------------------- *)
\* C12: while main handles a routed message that carries no id, from the
\* step that reads it to the step that ends its handling, no response (no
\* result and no error) is written, whether the handler returns or raises.
C12_NoIdNoResponse ==
    [][ (\/ /\ ReadsLine
            /\ Routed(Head(stdin))
            /\ Head(stdin).id = NullId
         \/ /\ pc \notin {"start", "idle"}
            /\ Routed(cur)
            /\ cur.id = NullId) =>
            \A k \in DOMAIN Written : ~IsResponse(Written[k])
      ]_vars

(* ---------------------------------------------------------------------- *)
(* C13                                                                     *)
(* ---------------------------------------------------------------------- *)
\* positions in out of the responses that carry an id
KeyedResponses == {k \in DOMAIN out : IsResponse(out[k]) /\ out[k].id # NullId}

\* C13: whenever main is between two iterations, every message read so far
\* that carries an id has exactly one response with that id, whatever
\* happened while it was processed, and the responses appear in the order
\* the requests were read (ids are given in the order of writing).
C13_EveryIdAnsweredOnce ==
    pc = "idle" =>
        /\ \A i \in DOMAIN seen :
               (seen[i].kind = "object" /\ seen[i].id # NullId) =>
                   Cardinality(Answers(seen[i].id)) = 1
        /\ \A j, k \in KeyedResponses : j < k => out[j].id < out[k].id

(* ---------------------------------------------------------------------- *)
(* C14                                                                     *)
(* ---------------------------------------------------------------------- *)
\* ticker thread t writes its notification in this step
TickWritten(t) == ticker[t].pc = "armed" /\ ticker'[t].pc = "sleeping"

\* C14: a progress notification is written only while main is handling the
\* request that produced it, that is after the previous response and before
\* the request's own response: main writes one only inside a handler, and a
\* ticker thread writes one only while the request whose initialize call
\* started it is still being handled.
C14_ProgressBeforeResponse ==
    [][ (\E k \in DOMAIN Written : IsProgress(Written[k])) =>
            /\ pc \notin {"start", "idle"}
            /\ \A t \in Tickers : TickWritten(t) => ticker[t].job = cur.id
      ]_vars

(* ---------------------------------------------------------------------- *)
(* C15                                                                     *)
(* ---------------------------------------------------------------------- *)
IsReady(m) == IsNotification(m) /\ m.method = "ready"

\* C15: before main enters its loop nothing has been read or written; from
\* then on the first message of the output stream is the notification
\* ready {version: "1.0.0"} and no later message is a ready notification,
\* so every response and every progress notification comes after it.
C15_ReadyFirstOnce ==
    /\ pc = "start" => (seen = << >> /\ out = << >>)
    /\ pc # "start" =>
           /\ out # << >>
           /\ out[1] = Notification("ready", [version |-> "1.0.0"])
           /\ \A k \in DOMAIN out : IsReady(out[k]) => k = 1

\* lines were read and answered, with progress notifications, after `ready`
C15_Witness ==
    /\ Len(seen) >= 2
    /\ IsReady(out[1])
    /\ \E j, k \in DOMAIN out : IsProgress(out[j]) /\ IsResult(out[k])

(* ---------------------------------------------------------------------- *)
(* C16                                                                     *)
(* ---------------------------------------------------------------------- *)
\* no model handle is held and the session is not initialized
Released ==
    /\ whisper_model = None
    /\ align_model = None
    /\ align_metadata = None
    /\ ~is_initialized

\* the line read just before the current request was a shutdown request
AfterShutdown ==
    /\ Len(seen) >= 2
    /\ Routed(seen[Len(seen) - 1])
    /\ seen[Len(seen) - 1].method = "shutdown"

\* C16: in whatever session state a shutdown request is read, the step
\* answers {status: "shutdown"} under the request's id, leaves no model
\* handle and the session uninitialized, changes no other session field
\* (so a shutdown of a released session leaves it exactly as it was), and
\* leaves main between two iterations; an initialize that follows a
\* shutdown does not short-circuit but enters the load path.
C16_ShutdownIdempotent ==
    [][ /\ (/\ ReadsLine
            /\ Routed(Head(stdin))
            /\ Head(stdin).method = "shutdown") =>
               /\ Released'
               /\ UNCHANGED <<device, language, model_name, is_processing,
                              cancel_requested>>
               /\ Released => session' = session
               /\ Written = << Response([status |-> "shutdown"],
                                        Head(stdin).id) >>
               /\ pc' = "idle"
        /\ (pc = "init_guard" /\ pc' # pc /\ AfterShutdown) =>
               /\ pc' = "init_import"
               /\ Written = << Progress("initializing", 2),
                               Progress("initializing", 5) >>
      ]_vars

\* shutdown was answered twice in a row and the initialize after it ran
\* all three toolkit loads and succeeded
C16_Witness ==
    /\ pc = "idle"
    /\ Len(seen) = 3
    /\ seen[1].method = "shutdown" /\ seen[2].method = "shutdown"
    /\ seen[3].method = "initialize"
    /\ Cardinality({k \in DOMAIN out :
                       IsResult(out[k])
                       /\ out[k].result = [status |-> "shutdown"]}) = 2
    /\ Len(calls) = 3
    /\ is_initialized

(* ---------------------------------------------------------------------- *)
(* C17                                                                     *)
(* ---------------------------------------------------------------------- *)
\* an initialize request with a credential token was read before request
\* `id` and answered with a result
TokenGivenBefore(id) ==
    \E i \in DOMAIN seen :
        /\ Routed(seen[i]) /\ seen[i].method = "initialize"
        /\ "hf_token" \in DOMAIN seen[i].params
        /\ seen[i].id < id
        /\ \E k \in Answers(seen[i].id) : IsResult(out[k])

\* every segment and every word of a transcript carries a speaker label
HasSpeakers(res) ==
    \A i \in DOMAIN res.segments :
        /\ "speaker" \in DOMAIN res.segments[i]
        /\ \A j \in DOMAIN res.segments[i].words :
               "speaker" \in DOMAIN res.segments[i].words[j]
\* no segment and no word of a transcript carries a speaker label
NoSpeakers(res) ==
    \A i \in DOMAIN res.segments :
        /\ "speaker" \notin DOMAIN res.segments[i]
        /\ \A j \in DOMAIN res.segments[i].words :
               "speaker" \notin DOMAIN res.segments[i].words[j]

\* C17: a TranscriptResult returned after an initialize that was given a
\* credential token succeeded carries speaker labels on its segments and
\* words; a TranscriptResult returned when no such initialize came before
\* carries none.
C17_SpeakerLabels ==
    \A k \in DOMAIN out :
        TranscriptAt(k) =>
            IF TokenGivenBefore(out[k].id)
            THEN HasSpeakers(out[k].result)
            ELSE NoSpeakers(out[k].result)

(* ---------------------------------------------------------------------- *)
(* C18                                                                     *)
(* ---------------------------------------------------------------------- *)
\* C18: the language a transcribe request passes to the transcription model
\* is the request's language parameter when it has one and the session's
\* default language otherwise.
C18_LanguageHint ==
    \A k \in DOMAIN calls :
        calls[k][1] = "transcribe" =>
            calls[k][2] = Get(cur.params, "language", language)

(* ---------------------------------------------------------------------- *)
(* C19                                                                     *)
(* ---------------------------------------------------------------------- *)
\* the `start` values of a sequence of segments or words never decrease
StartsSorted(items) ==
    \A i, j \in DOMAIN items : i < j => items[i].start <= items[j].start

\* C19: in every TranscriptResult written, the segments are in
\* non-decreasing order of start and so are the words of every segment.
C19_SortedByStart ==
    \A k \in DOMAIN out :
        TranscriptAt(k) =>
            /\ StartsSorted(out[k].result.segments)
            /\ \A i \in DOMAIN out[k].result.segments :
                   StartsSorted(out[k].result.segments[i].words)

(* ---------------------------------------------------------------------- *)
(* C20                                                                     *)
(* ---------------------------------------------------------------------- *)
\* the position of main at which the stage of ticker t is still running,
\* its completion notification (15% / 92%) not yet sent
StageOf(t) == IF t = "import" THEN "init_import" ELSE "init_model"

\* C20: a ticker thread writes a tick only while main is inside the stage
\* the thread was started for, in the call that started it: no tick of a
\* stage is written once main has sent the stage's completion notification.
C20_NoStaleTick ==
    [][ \A t \in Tickers :
            TickWritten(t) => (pc = StageOf(t) /\ cur.id = ticker[t].job)
      ]_vars

(* ---------------------------------------------------------------------- *)
(* C21                                                                     *)
(* ---------------------------------------------------------------------- *)
\* out[j] and out[k] were written within the same call: no response lies
\* between them
SameCall(j, k) ==
    /\ j < k
    /\ \A m \in DOMAIN out : (j < m /\ m < k) => ~IsResponse(out[m])

\* C21: the progress notifications of one initialize call, the ticks of the
\* ticker threads included, carry percents within [0,100] (0..200 in
\* half-percents) that never decrease in the order they were written.
C21_PercentMonotone ==
    /\ \A k \in DOMAIN out :
           IsProgress(out[k]) =>
               (0 <= out[k].params.percent /\ out[k].params.percent <= 200)
    /\ \A j, k \in DOMAIN out :
           (IsProgress(out[j]) /\ IsProgress(out[k]) /\ SameCall(j, k)) =>
               out[j].params.percent <= out[k].params.percent

(* ---------------------------------------------------------------------- *)
(* C22                                                                     *)
(* ---------------------------------------------------------------------- *)
\* positions at which a pipeline stage or the formatting is the job's next
\* step
StagePoints == JobStages \ LockPoints

\* some thread can take a step other than the parent writing a line
Progressing == ENABLED (NextThreaded /\ sent' = sent)

\* C22: the job thread holds the lock only inside its flag blocks, never at
\* a point where a pipeline stage runs; so at every such point a cancel()
\* of a second thread can take the lock (or another caller is about to
\* release it) and get_status() can return, and whenever a request is
\* being handled or waiting some thread can step: no deadlock.
C22_LockNeverAcrossStage ==
    /\ lock = "job" => pc \in LockPoints
    /\ pc \in StagePoints =>
           /\ lock = "caller" \/ ENABLED CancelCall
           /\ ENABLED StatusCall
    /\ lock = "caller" => ENABLED CancelSet
    /\ (pc \notin {"idle", "start"} \/ stdin # << >>) => Progressing

\* while the transcription stage was pending, a second thread's cancel()
\* has set the flag and released the lock and its get_status() has returned
C22_Witness ==
    /\ pc = "tr_transcribe"
    /\ lock = "free"
    /\ cancel_requested
    /\ polled # NoStatus
    /\ polled.processing

(* ---------------------------------------------------------------------- *)
(* C23                                                                     *)
(* ---------------------------------------------------------------------- *)
\* a job is between its entry and its exit
InJob == pc \in JobStages \cup {"tr_enter"}

\* C23: a transcribe request is read, and so a job started, only when no
\* job is between its entry and its exit (the flag is down, the lock free,
\* the locals of the last job dropped); while a job is running no other
\* request replaces it; and processing is set or reset only by the steps of
\* the job that is running.
C23_SingleJob ==
    [][ /\ (/\ ReadsLine
            /\ Routed(Head(stdin))
            /\ Head(stdin).method = "transcribe") =>
               /\ ~InJob
               /\ ~is_processing
               /\ lock # "job"
               /\ locals = <<0, None>>
        /\ InJob => (cur' = cur /\ ~ReadsLine)
        /\ is_processing' # is_processing =>
               /\ cur.method = "transcribe"
               /\ pc \in {"tr_enter", "tr_finally"}
      ]_vars

\* a job is in its alignment stage while the next transcribe request waits
\* unread on stdin
C23_Witness ==
    /\ pc = "tr_align"
    /\ is_processing
    /\ stdin # << >>
    /\ Head(stdin).method = "transcribe"

(* ---------------------------------------------------------------------- *)
(* C24                                                                     *)
(* ---------------------------------------------------------------------- *)
\* the three model handles are loaded
AllLoaded ==
    /\ align_model # None
    /\ align_metadata # None
    /\ whisper_model # None

\* the toolkit calls of the current request, by name
CallNames == {calls[k][1] : k \in DOMAIN calls}

\* C24: whenever the session is initialized its three model handles are
\* loaded; and is_initialized turns true only in the step that ends an
\* initialize call whose import, load_align_model and load_model all
\* succeeded, the step after which the call returns its result.
C24_InitializedMeansLoaded ==
    /\ [](is_initialized => AllLoaded)
    /\ [][ (is_initialized' /\ ~is_initialized) =>
               /\ cur.method = "initialize"
               /\ pc = "init_model" /\ pc' = "respond"
               /\ ~ret'.raised
               /\ CallNames' = {"import", "load_align_model", "load_model"}
               /\ AllLoaded'
         ]_vars

\* the session is initialized after an initialize that failed and a
\* shutdown came before
C24_Witness ==
    /\ is_initialized
    /\ pc = "idle"
    /\ \E j, k \in DOMAIN out :
           /\ j < k
           /\ IsError(out[j]) /\ out[j].error.code = -32603
           /\ IsResult(out[k]) /\ out[k].result = [status |-> "shutdown"]

====
